---- MODULE Spec2Model ----
(***************************************************************************)
(* Model of tomato_bot.py: the seen-ids ledger (load_seen_ids,             *)
(* save_seen_ids), the caption budget (add_hashtags), the museum pickers   *)
(* (pick_loc_tomato, pick_cooperhewitt_tomato, pick_cma_tomato,            *)
(* pick_met_tomato, pick_artic_tomato, pick_rijks_tomato), the publisher   *)
(* (post_to_bluesky) and the orchestrator (main).                          *)
(*                                                                         *)
(* Spec        : repeated sequential runs of main over one ledger file.    *)
(* FairSpec    : Spec with weak fairness of Next (every run finishes and   *)
(*               is followed by another one).                              *)
(* ProgressSpec : the runs of Spec in which every request, post and save   *)
(*               succeeds, with weak fairness.                             *)
(* PickSpec    : each picker called once on a seen set.                    *)
(* RunOrPickSpec : the behaviours of Spec and of PickSpec together.        *)
(* CaptionSpec : add_hashtags applied to a bounded family of input texts.  *)
(* ImageSpec   : the image part of post_to_bluesky applied to a bounded    *)
(*               family of downloaded images.                              *)
(***************************************************************************)
EXTENDS Integers, Sequences, FiniteSets, TLC

VARIABLES
    \* ---- the process and its environment
    pc,          \* position of main: "init", "selecting", "publishing",
                 \* "posted", "saving", "done", "exhausted", "error"
    env,         \* the process environment: what lines 20-22 read at
                 \* import, and RIJKS_API_KEY read at line 448
    file,        \* posted_ids.json: [exists, data]
    seen,        \* main's local set `seen`
    idx,         \* index in `pickers` of the next picker to call
    result,      \* main's local `result`, the last picker's return value
    \* ---- observations of the run (history, not program state)
    tried,       \* labels of the pickers called in this run, in call order
    fileAtStart, \* the ledger file as it was when the run started
    seenAtLoad,  \* the value load_seen_ids returned to this run
    errCause,    \* why the run ended in error ("" if it did not)
    postCalls,   \* calls of post_to_bluesky in this run
    postOk,      \* post_to_bluesky returned normally in this run
    saveCalls,   \* calls of save_seen_ids in this run
    published,   \* keys whose post was created, over all runs
    republished, \* some key's post was created twice
    saveFailed,  \* some save_seen_ids call failed, over all runs
    loadFailed,  \* some load_seen_ids call could not read a ledger that
                 \* held keys, over all runs
    saveOk,      \* this run's save_seen_ids call wrote the whole file
    loadCalls,   \* calls of load_seen_ids in this run
    \* ---- PickSpec
    call,        \* what the network and random.shuffle did in the last
                 \* picker call of PickSpec
    \* ---- CaptionSpec
    base_text,   \* argument of add_hashtags
    final_text,  \* its return value
    cpc,         \* "in" before the call, "out" after it, "off" in Spec
    \* ---- ImageSpec
    image_data,  \* post_to_bluesky's local image_data
    blob,        \* the bytes handed to client.upload_blob
    ipc          \* "downloaded", "prepared", "uploaded"; "off" elsewhere

vars == <<pc, env, file, seen, idx, result, tried, fileAtStart, seenAtLoad,
          errCause, postCalls, postOk, saveCalls, published, republished,
          saveFailed, loadFailed, saveOk, loadCalls, call, base_text,
          final_text, cpc,
          image_data, blob, ipc>>

mainVars == <<pc, env, file, seen, idx, result, tried, fileAtStart,
              seenAtLoad, errCause, postCalls, postOk, saveCalls, published,
              republished, saveFailed, loadFailed, saveOk, loadCalls, call>>

captionVars == <<base_text, final_text, cpc>>

imageVars == <<image_data, blob, ipc>>

Min(a, b) == IF a <= b THEN a ELSE b

Last(s) == s[Len(s)]

(***************************************************************************)
(* Text: a Python str is a sequence of one-character strings.              *)
(***************************************************************************)

\* line 37
MAX_TEXT_LEN == 300

\* line 38: "\n\n#tomato #art"
HASHTAGS_SUFFIX ==
    <<"\n", "\n", "#", "t", "o", "m", "a", "t", "o", " ", "#", "a", "r", "t">>

\* the one character U+2026 appended at line 64
ELLIPSIS == "..."

\* str.isspace for the characters of the model
IsSpace(c) == c \in {" ", "\n", "\t"}

\* s[:n] for n >= 0
Prefix(s, n) == SubSeq(s, 1, Min(n, Len(s)))

\* str.rstrip()
RStrip(s) ==
    LET keep == {i \in 1..Len(s) : ~IsSpace(s[i])}
    IN  IF keep = {} THEN <<>>
        ELSE SubSeq(s, 1, CHOOSE i \in keep : \A j \in keep : j <= i)

\* str.lstrip()
LStrip(s) ==
    LET keep == {i \in 1..Len(s) : ~IsSpace(s[i])}
    IN  IF keep = {} THEN <<>>
        ELSE SubSeq(s, CHOOSE i \in keep : \A j \in keep : i <= j, Len(s))

\* str.strip()
Strip(s) == RStrip(LStrip(s))

\* a cut that leaves the marker out
Truncate_NoMarker(base, allowed) == RStrip(Prefix(base, allowed))

\* line 64: base[:allowed].rstrip() + ELLIPSIS
Truncate(base, allowed) == RStrip(Prefix(base, allowed)) \o <<ELLIPSIS>>

\* add_hashtags cutting a text that fills the budget exactly
add_hashtags_StrictFit(text) ==
    LET base    == Strip(text)
        suffix  == HASHTAGS_SUFFIX
        full    == base \o suffix
        allowed == MAX_TEXT_LEN - Len(suffix)
    IN  IF Len(full) < MAX_TEXT_LEN THEN full
        ELSE IF allowed <= 0 THEN Strip(suffix)
        ELSE Truncate(base, allowed) \o suffix

\* lines 55-65
add_hashtags(text) ==
    LET base    == Strip(text)
        suffix  == HASHTAGS_SUFFIX
        full    == base \o suffix
        allowed == MAX_TEXT_LEN - Len(suffix)
    IN  IF Len(full) <= MAX_TEXT_LEN THEN full
        ELSE IF allowed <= 0 THEN Strip(suffix)
        ELSE Truncate(base, allowed) \o suffix

(***************************************************************************)
(* Images: a downloaded file by its pixel size and its length in bytes.    *)
(***************************************************************************)

\* line 83
MAX_SIZE == 950 * 1024

Image(w, h, n) == [width |-> w, height |-> h, len |-> n]

NoImage == Image(0, 0, 0)

\* line 89: int(x * 0.8)
Scale(x) == (x * 8) \div 10

\* the byte lengths looked at: tiny, around MAX_SIZE, far over it
ImageLens ==
    {1, MAX_SIZE \div 2, MAX_SIZE - 1, MAX_SIZE, MAX_SIZE + 1, 2 * MAX_SIZE,
     10 * MAX_SIZE}

\* lines 93-95: the lengths the JPEG of a w x h picture can have at quality
\* 85.  The length depends on the picture; lengths up to a quarter of a
\* byte per pixel are kept (photographs take that and more).
JpegLens(w, h) == {n \in ImageLens : 4 * n <= w * h}

\* lines 86-95: one resize to 80% and one re-encoding
Resized(img) ==
    {Image(Scale(img.width), Scale(img.height), n) :
        n \in JpegLens(Scale(img.width), Scale(img.height))}

\* lines 83-96: image_data after the `if len(image_data) > MAX_SIZE` block
resize_if_needed(img) ==
    IF img.len > MAX_SIZE THEN Resized(img) ELSE {img}

(***************************************************************************)
(* The ledger file.  A key f"<tag>:<id>" is the pair <<tag, id>>.  The     *)
(* file holds the tokens json.dump writes: "[", the keys, "]".  A write    *)
(* that stops early leaves a proper prefix of them.                        *)
(***************************************************************************)

LBRACKET == <<"[", 0>>

RBRACKET == <<"]", 0>>

\* f"loc:{item_id}", f"cooper:{oid}", f"cma:{oid}", f"met:{oid}",
\* f"artic:{oid}", f"rijks:{oid}"
Key(tag, id) == <<tag, id>>

\* the order of Python's str comparison on the tags of the model
TagRank(tag) ==
    CASE tag = "artic" -> 1 [] tag = "cma" -> 2 [] tag = "cooper" -> 3
      [] tag = "loc" -> 4 [] tag = "met" -> 5 [] tag = "rijks" -> 6
      [] OTHER -> 7

\* k1 < k2 as Python strings (ids of the model are single digits)
KeyLess(k1, k2) ==
    \/ TagRank(k1[1]) < TagRank(k2[1])
    \/ TagRank(k1[1]) = TagRank(k2[1]) /\ k1[2] < k2[2]

\* sorted(list(keys))
RECURSIVE Sorted(_)
Sorted(keys) ==
    IF keys = {} THEN <<>>
    ELSE LET least == CHOOSE k \in keys : \A o \in keys \ {k} : KeyLess(k, o)
         IN  <<least>> \o Sorted(keys \ {least})

\* json.dump(list, f, indent=2): the tokens written, in order
JsonDump(list) == <<LBRACKET>> \o list \o <<RBRACKET>>

\* json.load succeeds only on a complete array
JsonValid(data) ==
    /\ Len(data) >= 2
    /\ data[1] = LBRACKET
    /\ data[Len(data)] = RBRACKET
    /\ \A i \in 2..(Len(data) - 1) : data[i] \notin {LBRACKET, RBRACKET}

\* a load that leaves out the last element of the array
JsonLoadSet_SkipsLast(data) == {data[i] : i \in 2..(Len(data) - 2)}

\* set(json.load(f)) on a complete array
JsonLoadSet(data) == {data[i] : i \in 2..(Len(data) - 1)}

NoFile == [exists |-> FALSE, data |-> <<>>]

\* lines 41-46: a missing or unparsable file gives the empty set
load_seen_ids(f) ==
    IF f.exists /\ JsonValid(f.data) THEN JsonLoadSet(f.data) ELSE {}

\* lines 41-46: what one call can return.  open or the read can raise on a
\* file that is there and whole (no permission, I/O error); line 45 catches
\* that too and set() is returned
LoadReturns(f) == {load_seen_ids(f), {}}

\* lines 48-53.  The outcomes of one call on file f, each with the file it
\* leaves and whether the dump completed.  open(..., "w") may fail (file
\* untouched); once it succeeded the file is truncated and the dump may
\* stop after any number of tokens.  The exception is only printed.
save_seen_ids(f, keys) ==
    LET tokens == JsonDump(Sorted(keys))
    IN  {[file |-> f, ok |-> FALSE]}
        \cup {[file |-> [exists |-> TRUE, data |-> SubSeq(tokens, 1, n)],
               ok   |-> n = Len(tokens)] : n \in 0..Len(tokens)}

(***************************************************************************)
(* Picker results.  A picker returns None or (caption, img, key), or it    *)
(* raises.  `caption` is kept as the list `lines` that "\n".join joins;    *)
(* `net` counts the requests.get calls made on the way.                    *)
(***************************************************************************)

\* dict.get on a key the record does not have
Absent == "<absent>"

\* obj.get(field, default)
Get(obj, field, default) == IF obj[field] = Absent THEN default ELSE obj[field]

\* an image URL, by the parts the pickers look at
Url(host, path, ext, size) ==
    [host |-> host, path |-> path, ext |-> ext, size |-> size]

\* no URL: None, "" or a missing key
NoUrl == Url("", "", "", "")

None ==
    [kind |-> "none", caption |-> <<>>, image_url |-> NoUrl,
     key |-> <<"", 0>>, why |-> "", net |-> 0]

\* `return caption, img, key`
Candidate(lines, img, key) ==
    [kind |-> "cand", caption |-> lines, image_url |-> img, key |-> key,
     why |-> "", net |-> 0]

\* an exception leaving the picker
Raised(why) ==
    [kind |-> "raise", caption |-> <<>>, image_url |-> NoUrl,
     key |-> <<"", 0>>, why |-> why, net |-> 0]

\* the result r of code that made n more requests.get calls
Requested(r, n) == [r EXCEPT !.net = @ + n]

\* what the network and random.shuffle do in one call of a picker: whether
\* the search request gives a result list, the order the shuffle puts the
\* list in, how each detail request ends
Call(ok, order, fetch) == [search_ok |-> ok, order |-> order, fetch |-> fetch]

\* no request made
NoCall == Call(FALSE, <<>>, <<>>)

\* the lines kept by `if x: lines.append(x)`
OptLine(x) == IF x \in {Absent, ""} THEN <<>> ELSE <<x>>

\* random.shuffle(list): every order of the list
Shuffles(list) ==
    {[i \in 1..Len(list) |-> list[f[i]]] : f \in Permutations(1..Len(list))}

(***************************************************************************)
(* Library of Congress, lines 508-613                                      *)
(***************************************************************************)

\* data["results"] of a successful search.  `id` 0 is a missing or empty
\* id; `url` is the number the regex of line 552 finds at the end of the
\* item's url, 0 when it finds none.
LOC_RESULTS ==
    << [id |-> 1, url |-> 0, title |-> "Tomato pickers", date |-> "1939",
        contributor |-> <<"Lee, Russell">>,
        image_url |-> <<Url("tile.loc.gov", "", "jpg", "pct:25")>>],
       [id |-> 0, url |-> 2, title |-> Absent, date |-> "",
        contributor |-> <<>>,
        image_url |-> <<Url("www.loc.gov", "", "jpg", "size=150")>>],
       [id |-> 3, url |-> 0, title |-> "Tomato label", date |-> "1900",
        contributor |-> <<>>,
        image_url |-> <<Url("www.loc.gov", "static-images", "svg", "")>>],
       [id |-> 0, url |-> 0, title |-> "Tomato field", date |-> "",
        contributor |-> <<>>,
        image_url |-> <<Url("www.loc.gov", "", "jpg", "")>>],
       [id |-> 4, url |-> 0, title |-> "Tomato book", date |-> "",
        contributor |-> <<>>, image_url |-> <<>>] >>

\* lines 548-554
LocItemId(item) == IF item.id # 0 THEN item.id ELSE item.url

\* lines 574-576
LocPlaceholder(u) ==
    u.ext = "svg" \/ u.path \in {"original-format", "static-images"}

\* line 580
LocImageExt(u) == u.ext \in {"jpg", "jpeg", "png", "tif", "tiff"}

\* lines 586-593
LocUpgrade(u) ==
    IF u.host = "tile.loc.gov"
    THEN [u EXCEPT !.size = CASE u.size = "pct:25" -> "pct:100"
                               [] u.size = "512,"   -> "2048,"
                               [] OTHER             -> u.size]
    ELSE IF u.size = "size=150" THEN [u EXCEPT !.size = "size=2048"]
    ELSE u

\* lines 595-608
LocCaption(item) ==
    <<Get(item, "title", "Untitled")>>
    \o (IF item.contributor # <<>> THEN OptLine(item.contributor[1]) ELSE <<>>)
    \o OptLine(item.date)
    \o <<"Source: Library of Congress (Public Domain)">>

\* lines 546-613: the loop over the shuffled items
RECURSIVE loc_loop(_, _)
loc_loop(items, seenIds) ==
    IF items = <<>> THEN None
    ELSE LET item    == Head(items)
             item_id == LocItemId(item)
             key     == Key("loc", item_id)
             img_url == IF item.image_url # <<>> THEN item.image_url[1]
                        ELSE NoUrl
         IN  IF \/ item_id = 0
                \/ key \in seenIds
                \/ img_url = NoUrl
                \/ LocPlaceholder(img_url)
                \/ ~LocImageExt(img_url)
             THEN loc_loop(Tail(items), seenIds)
             ELSE Candidate(LocCaption(item), LocUpgrade(img_url), key)

\* lines 519-544: the search fails, or its items with an image_url are
\* shuffled
LocCalls ==
    LET results           == LOC_RESULTS
        items_with_images == SelectSeq(results, LAMBDA r : r.image_url # <<>>)
    IN  {Call(FALSE, <<>>, <<>>)}
        \cup {Call(TRUE, o, <<>>) : o \in Shuffles(items_with_images)}

\* lines 508-613, one call
loc_call(seenIds, ch) ==
    Requested(IF ~ch.search_ok THEN None            \* lines 527-529
              ELSE loc_loop(ch.order, seenIds), 1)

\* lines 508-613: the returns the call can make
pick_loc_tomato(seenIds) == {loc_call(seenIds, ch) : ch \in LocCalls}

(***************************************************************************)
(* Cooper Hewitt, lines 263-343                                            *)
(***************************************************************************)

\* data["objects"] of a successful search; desc_len is len(description)
CH_OBJECTS ==
    << [id |-> 1, title |-> "Tomato slicer", date |-> "1950",
        description |-> "Steel tomato slicer", desc_len |-> 19,
        images |-> <<[b |-> NoUrl, z |-> Url("ch", "", "jpg", "z"),
                      n |-> Url("ch", "", "jpg", "n")]>>],
       [id |-> 2, title |-> "", date |-> Absent,
        description |-> "A very long description", desc_len |-> 250,
        images |-> <<[b |-> NoUrl, z |-> NoUrl, n |-> NoUrl]>>],
       [id |-> 3, title |-> "Tomato can", date |-> "",
        description |-> Absent, desc_len |-> 0, images |-> <<>>] >>

\* lines 318-322
ChImage(img_data) ==
    IF img_data.b # NoUrl THEN img_data.b
    ELSE IF img_data.z # NoUrl THEN img_data.z
    ELSE img_data.n

\* lines 327-338
ChCaption(obj) ==
    <<Get(obj, "title", "Untitled")>>
    \o OptLine(obj.date)
    \o (IF obj.desc_len < 200 THEN OptLine(obj.description) ELSE <<>>)
    \o <<"Source: Cooper Hewitt Smithsonian Design Museum">>

\* lines 303-343
RECURSIVE ch_loop(_, _)
ch_loop(objects, seenIds) ==
    IF objects = <<>> THEN None
    ELSE LET obj == Head(objects)
             key == Key("cooper", obj.id)
         IN  IF \/ key \in seenIds
                \/ obj.images = <<>>
                \/ ChImage(obj.images[1]) = NoUrl
             THEN ch_loop(Tail(objects), seenIds)
             ELSE Candidate(ChCaption(obj), ChImage(obj.images[1]), key)

\* lines 272-301
ChCalls ==
    {Call(FALSE, <<>>, <<>>)}
    \cup {Call(TRUE, o, <<>>) : o \in Shuffles(CH_OBJECTS)}

\* the call without the test of lines 268-270
ch_call_NoKeyTest(seenIds, api_key, ch) ==
    Requested(IF ~ch.search_ok THEN None
              ELSE ch_loop(ch.order, seenIds), 1)

\* lines 263-343, one call; api_key is the module's COOPER_API_KEY
ch_call(seenIds, api_key, ch) ==
    IF ~api_key THEN None                           \* lines 268-270
    ELSE Requested(IF ~ch.search_ok THEN None       \* lines 291-293
                   ELSE ch_loop(ch.order, seenIds), 1)

\* lines 263-343: the returns the call can make
pick_cooperhewitt_tomato(seenIds, api_key) ==
    {ch_call(seenIds, api_key, ch) : ch \in ChCalls}

(***************************************************************************)
(* Cleveland Museum of Art, lines 227-261                                  *)
(***************************************************************************)

\* r.json()["data"] of a successful search
CMA_DATA ==
    << [id |-> 1, title |-> "Still Life with Tomato",
        creators |-> <<"J. Doe">>, creation_date |-> "1920",
        creditline |-> "Gift", web |-> Url("cma", "", "jpg", "web")],
       [id |-> 2, title |-> Absent, creators |-> <<>>,
        creation_date |-> Absent, creditline |-> "", web |-> NoUrl] >>

\* lines 248-258
CmaCaption(obj) ==
    <<Get(obj, "title", "Untitled")>>
    \o (IF obj.creators # <<>> THEN OptLine(obj.creators[1]) ELSE <<>>)
    \o OptLine(obj.creation_date)
    \o OptLine(obj.creditline)
    \o <<"Source: The Cleveland Museum of Art (CC0)">>

\* the loop of lines 240-261 without the test of lines 243-244
RECURSIVE cma_loop_NoSeenTest(_, _)
cma_loop_NoSeenTest(objs, seenIds) ==
    IF objs = <<>> THEN None
    ELSE LET obj == Head(objs)
         IN  IF obj.web = NoUrl
             THEN cma_loop_NoSeenTest(Tail(objs), seenIds)
             ELSE Candidate(CmaCaption(obj), obj.web, Key("cma", obj.id))

\* lines 240-261
RECURSIVE cma_loop(_, _)
cma_loop(objs, seenIds) ==
    IF objs = <<>> THEN None
    ELSE LET obj == Head(objs)
             key == Key("cma", obj.id)
         IN  IF key \in seenIds \/ obj.web = NoUrl
             THEN cma_loop(Tail(objs), seenIds)
             ELSE Candidate(CmaCaption(obj), obj.web, key)

\* what a failure of the search request of lines 235-237 does to the call
CmaSearchFailure == Requested(Raised("cma_search"), 1)

\* lines 235-239
CmaCalls ==
    {Call(FALSE, <<>>, <<>>)}
    \cup {Call(TRUE, o, <<>>) : o \in Shuffles(CMA_DATA)}

\* lines 227-261, one call: the search is made outside any try block
cma_call(seenIds, ch) ==
    IF ~ch.search_ok THEN CmaSearchFailure
    ELSE Requested(cma_loop(ch.order, seenIds), 1)

\* lines 227-261: the returns the call can make
pick_cma_tomato(seenIds) == {cma_call(seenIds, ch) : ch \in CmaCalls}

(***************************************************************************)
(* The Met, lines 144-225                                                  *)
(***************************************************************************)

\* the object ids in the links of the scraped search page, as found
MET_LINKS == <<1, 2, 1, 3>>

\* the object records the detail endpoint serves
MET_OBJECTS ==
    [oid \in {1, 2, 3} |->
        CASE oid = 1 ->
               [isPublicDomain |-> TRUE, title |-> "Tomato Teapot",
                artistDisplayName |-> "", objectDate |-> "ca. 1760",
                creditLine |-> "Gift of X", department |-> "American Wing",
                objectName |-> "Teapot", medium |-> "Earthenware",
                culture |-> "British", classification |-> "Ceramics",
                tags |-> <<"Tomatoes", "Teapots">>,
                primaryImageSmall |-> Url("met", "", "jpg", "small"),
                primaryImage |-> Url("met", "", "jpg", "full")]
          [] oid = 2 ->
               [isPublicDomain |-> TRUE, title |-> "Still Life",
                artistDisplayName |-> "A. Painter", objectDate |-> "",
                creditLine |-> "", department |-> "",
                objectName |-> "Painting", medium |-> "Oil on canvas",
                culture |-> "", classification |-> "Paintings",
                tags |-> <<"Fruit">>,
                primaryImageSmall |-> NoUrl,
                primaryImage |-> Url("met", "", "jpg", "full")]
          [] OTHER ->
               [isPublicDomain |-> FALSE, title |-> "Tomato poster",
                artistDisplayName |-> "", objectDate |-> "1960",
                creditLine |-> "", department |-> "Drawings and Prints",
                objectName |-> "Print", medium |-> "Lithograph",
                culture |-> Absent, classification |-> "Prints",
                tags |-> <<>>,
                primaryImageSmall |-> Url("met", "", "jpg", "small"),
                primaryImage |-> NoUrl]]

\* the texts of the catalogues above with "tomato" in text.lower()
TomatoTexts ==
    {"Tomato Teapot", "Tomato poster", "Tomatoes", "Tomato Still Life",
     "Tomato Soup", "Still Life with Tomato"}

\* lines 120-142: "tomato" in " ".join(search_fields).lower(); the word has
\* no space in it, so it is in the joined text iff it is in one field
is_tomato_related(obj) ==
    LET search_fields ==
            <<Get(obj, "title", ""), Get(obj, "objectName", ""),
              Get(obj, "medium", ""), Get(obj, "culture", ""),
              Get(obj, "classification", "")>>
            \o obj.tags
    IN  \E i \in 1..Len(search_fields) : search_fields[i] \in TomatoTexts

\* the ends a detail request (lines 193-201) can come to
MetFetchOutcomes == {"ok", "404", "500", "timeout"}

\* list(set(object_ids)), line 176, in some order
MetObjectIds == {MET_LINKS[i] : i \in 1..Len(MET_LINKS)}

\* lines 209-221
MetCaption(obj) ==
    <<Get(obj, "title", "Untitled")>>
    \o OptLine(obj.artistDisplayName)
    \o OptLine(obj.objectDate)
    \o OptLine(obj.creditLine)
    \o (IF obj.department \in {Absent, ""} THEN <<>>
        ELSE <<"Source: <dept>, The Met Open Access">>)

\* lines 192-199: what a detail request that did not return 200 does
MetFetchFailure(outcome) ==
    IF outcome = "404" THEN "skip" ELSE "raise"

\* lines 186-225; fetch[oid] is how the detail request for oid ends
RECURSIVE met_loop(_, _, _)
met_loop(object_ids, seenIds, fetch) ==
    IF object_ids = <<>> THEN None
    ELSE LET oid == Head(object_ids)
             key == Key("met", oid)
             obj == MET_OBJECTS[oid]
             img == IF obj.primaryImageSmall # NoUrl
                    THEN obj.primaryImageSmall ELSE obj.primaryImage
         IN  IF key \in seenIds
             THEN met_loop(Tail(object_ids), seenIds, fetch)
             ELSE Requested(
                 IF fetch[oid] # "ok"
                 THEN IF MetFetchFailure(fetch[oid]) = "skip"
                      THEN met_loop(Tail(object_ids), seenIds, fetch)
                      ELSE Raised("met_detail")
                 ELSE IF ~obj.isPublicDomain \/ img = NoUrl
                 THEN met_loop(Tail(object_ids), seenIds, fetch)
                 ELSE Candidate(MetCaption(obj), img, key), 1)

\* random.shuffle(list(set(object_ids))): every order of the distinct ids
ShuffledIds(ids) ==
    {q \in [1..Cardinality(ids) -> ids] : {q[i] : i \in DOMAIN q} = ids}

\* lines 156-184 and 193-201
MetCalls ==
    {Call(FALSE, <<>>, <<>>)}
    \cup {Call(TRUE, o, f) : o \in ShuffledIds(MetObjectIds),
                             f \in [MetObjectIds -> MetFetchOutcomes]}

\* lines 144-225, one call
met_call(seenIds, ch) ==
    Requested(IF ~ch.search_ok THEN None            \* lines 161-163
              ELSE met_loop(ch.order, seenIds, ch.fetch), 1)

\* lines 144-225: the returns the call can make
pick_met_tomato(seenIds) == {met_call(seenIds, ch) : ch \in MetCalls}

(***************************************************************************)
(* Art Institute of Chicago, lines 345-440 (not in main's list)            *)
(***************************************************************************)

\* the artwork ids in the links of the scraped search page, as found
ARTIC_LINKS == <<1, 2, 2>>

\* data["data"] of the detail endpoint; image_id "" is a missing image
ARTIC_ARTWORKS ==
    [oid \in {1, 2} |->
        IF oid = 1
        THEN [title |-> "Tomato Still Life", is_public_domain |-> TRUE,
              image_id |-> "abc", artist_display |-> "B. Painter",
              date_display |-> "1890", credit_line |-> ""]
        ELSE [title |-> "Tomato Soup", is_public_domain |-> FALSE,
              image_id |-> "def", artist_display |-> "",
              date_display |-> "1968", credit_line |-> "Gift"]]

\* line 377
ArticObjectIds == {ARTIC_LINKS[i] : i \in 1..Len(ARTIC_LINKS)}

\* lines 425-435
ArticCaption(artwork) ==
    <<Get(artwork, "title", "Untitled")>>
    \o OptLine(artwork.artist_display)
    \o OptLine(artwork.date_display)
    \o OptLine(artwork.credit_line)
    \o <<"Source: Art Institute of Chicago (CC0)">>

\* lines 387-440; fetch_ok[oid] is whether the detail request for oid
\* returns a record (any failure is caught at lines 401-403)
RECURSIVE artic_loop(_, _, _)
artic_loop(object_ids, seenIds, fetch_ok) ==
    IF object_ids = <<>> THEN None
    ELSE LET oid     == Head(object_ids)
             key     == Key("artic", oid)
             artwork == ARTIC_ARTWORKS[oid]
         IN  IF key \in seenIds
             THEN artic_loop(Tail(object_ids), seenIds, fetch_ok)
             ELSE Requested(
                 IF \/ ~fetch_ok[oid]
                    \/ ~artwork.is_public_domain
                    \/ artwork.image_id = ""
                 THEN artic_loop(Tail(object_ids), seenIds, fetch_ok)
                 ELSE Candidate(ArticCaption(artwork),
                                Url("www.artic.edu", artwork.image_id, "jpg",
                                    "843,"),
                                key), 1)

\* lines 357-385 and 393-403
ArticCalls ==
    {Call(FALSE, <<>>, <<>>)}
    \cup {Call(TRUE, o, f) : o \in ShuffledIds(ArticObjectIds),
                             f \in [ArticObjectIds -> BOOLEAN]}

\* lines 345-440, one call
artic_call(seenIds, ch) ==
    Requested(IF ~ch.search_ok THEN None            \* lines 362-364
              ELSE artic_loop(ch.order, seenIds, ch.fetch), 1)

\* lines 345-440: the returns the call can make
pick_artic_tomato(seenIds) == {artic_call(seenIds, ch) : ch \in ArticCalls}

(***************************************************************************)
(* Rijksmuseum, lines 442-506 (not in main's list)                         *)
(***************************************************************************)

\* data["artObjects"] of a successful search
RIJKS_ARTOBJECTS ==
    << [objectNumber |-> 1, permitDownload |-> TRUE,
        webImage |-> Url("rijks", "", "jpg", ""), title |-> "Tomaten",
        principalOrFirstMaker |-> "Anonymous"],
       [objectNumber |-> 2, permitDownload |-> FALSE,
        webImage |-> Url("rijks", "", "jpg", ""), title |-> Absent,
        principalOrFirstMaker |-> ""],
       [objectNumber |-> 3, permitDownload |-> TRUE, webImage |-> NoUrl,
        title |-> "Tomatenplant", principalOrFirstMaker |-> ""] >>

\* lines 494-501
RijksCaption(artwork) ==
    <<Get(artwork, "title", "Untitled")>>
    \o OptLine(artwork.principalOrFirstMaker)
    \o <<"Source: Rijksmuseum (CC0)">>

\* lines 479-506
RECURSIVE rijks_loop(_, _)
rijks_loop(artworks, seenIds) ==
    IF artworks = <<>> THEN None
    ELSE LET artwork == Head(artworks)
             key     == Key("rijks", artwork.objectNumber)
         IN  IF \/ key \in seenIds
                \/ ~artwork.permitDownload
                \/ artwork.webImage = NoUrl
             THEN rijks_loop(Tail(artworks), seenIds)
             ELSE Candidate(RijksCaption(artwork), artwork.webImage, key)

\* lines 454-477
RijksCalls ==
    {Call(FALSE, <<>>, <<>>)}
    \cup {Call(TRUE, o, <<>>) : o \in Shuffles(RIJKS_ARTOBJECTS)}

\* lines 442-506, one call; api_key is whether os.getenv("RIJKS_API_KEY")
\* is set
rijks_call(seenIds, api_key, ch) ==
    IF ~api_key THEN None                           \* lines 450-452
    ELSE Requested(IF ~ch.search_ok THEN None       \* lines 467-469
                   ELSE rijks_loop(ch.order, seenIds), 1)

\* lines 442-506: the returns the call can make
pick_rijks_tomato(seenIds, api_key) ==
    {rijks_call(seenIds, api_key, ch) : ch \in RijksCalls}

(***************************************************************************)
(* Bluesky posting, lines 68-116                                           *)
(***************************************************************************)

\* the ends post_to_bluesky(text, image_url) can come to, given whether the
\* module's BSKY_HANDLE and BSKY_APP_PASSWORD are both set
post_to_bluesky(image_url, credentials) ==
    IF ~credentials THEN {"missing_credentials"}    \* lines 69-70
    ELSE {"login_failed"}                           \* line 74
         \cup (IF image_url # NoUrl
               THEN {"image_download_failed",       \* lines 78-79
                     "image_resize_failed",         \* lines 86-94
                     "upload_failed"}               \* line 98
               ELSE {})
         \cup {"create_failed", "ok"}               \* line 116

(***************************************************************************)
(* main, lines 620-648                                                     *)
(***************************************************************************)

\* lines 623-634: the list as written; the shuffle of line 634 is commented
\* out
pickers ==
    <<"Library of Congress", "Cooper Hewitt", "Cleveland Museum of Art",
      "The Met">>

\* line 637: picker(seen)
CallPicker(label, seenIds, cfg) ==
    CASE label = "Library of Congress"     -> pick_loc_tomato(seenIds)
      [] label = "Cooper Hewitt"           ->
             pick_cooperhewitt_tomato(seenIds, cfg.COOPER_API_KEY)
      [] label = "Cleveland Museum of Art" -> pick_cma_tomato(seenIds)
      [] label = "The Met"                 -> pick_met_tomato(seenIds)

\* lines 20-22 and 448: the environments a process can start in, by
\* whether the Bluesky credentials and each API key are set
Environments ==
    [BSKY : BOOLEAN, COOPER_API_KEY : BOOLEAN, RIJKS_API_KEY : BOOLEAN]

\* lines 623-634: pick_rijks_tomato, the one reader of RIJKS_API_KEY, is
\* not in main's list, so a run of main is the same with the key and
\* without it; the runs of main are taken without it
MainEnvironments == {e \in Environments : ~e.RIJKS_API_KEY}

\* main raising because a picker came back empty
AfterAbsent_Raises(i) == "error"

\* main going round the loop once more after the last picker
AfterAbsent_NoExit(i) == "selecting"

\* main giving up at the first picker that came back empty
AfterAbsent_GivesUp(i) == "exhausted"

\* lines 646-648: where main goes after picker number i returned None
AfterAbsent(i) == IF i < Len(pickers) THEN "selecting" ELSE "exhausted"

\* main recording the key first and never reaching line 641
AfterCandidate_RecordsFirst == "posted"

\* lines 638-641: with a result in hand main goes to post_to_bluesky
AfterCandidate == "publishing"

\* main catching the publisher's exception and going on to line 642
AfterPost_Swallows(outcome) == "posted"

\* line 641: an exception of post_to_bluesky leaves main; a normal return
\* goes on to line 642
AfterPost(outcome) == IF outcome = "ok" THEN "posted" ELSE "error"

\* main left by an exception of a failed save
AfterSave_Raises(ok) == IF ok THEN "done" ELSE "error"

\* main going back into the loop after the save
AfterSave_Continues(ok) == "selecting"

\* lines 643-645: save_seen_ids catches its own failure (lines 52-53), so
\* whether the write completed or not main prints "Done." and returns
AfterSave(ok) == "done"

\* main saving the set without the new key
AddKey_Forgets(seenIds, key) == seenIds

\* line 642: seen.add(key)
AddKey(seenIds, key) == seenIds \cup {key}

\* what the variables of the other specifications hold in a run of main
ImageOff == image_data = NoImage /\ blob = NoImage /\ ipc = "off"

Init ==
    /\ pc = "init"
    /\ env \in MainEnvironments
    /\ file = NoFile
    /\ seen = {}
    /\ idx = 1
    /\ result = None
    /\ tried = <<>>
    /\ fileAtStart = NoFile
    /\ seenAtLoad = {}
    /\ errCause = ""
    /\ postCalls = 0
    /\ postOk = FALSE
    /\ saveCalls = 0
    /\ published = {}
    /\ republished = FALSE
    /\ saveFailed = FALSE
    /\ loadFailed = FALSE
    /\ saveOk = FALSE
    /\ loadCalls = 0
    /\ call = NoCall
    /\ base_text = <<>>
    /\ final_text = <<>>
    /\ cpc = "off"
    /\ ImageOff

\* A process starts (the first one, or the next after the last one ended):
\* the configuration is read (lines 20-22) and main loads the ledger
\* (lines 621-622).
StartRun ==
    /\ pc \in {"init", "done", "exhausted", "error"}
    /\ env' \in MainEnvironments
    /\ \E keys \in LoadReturns(file) :
          /\ seen' = keys
          /\ seenAtLoad' = keys
          /\ loadFailed' = (loadFailed \/ keys # load_seen_ids(file))
    /\ fileAtStart' = file
    /\ idx' = 1
    /\ result' = None
    /\ tried' = <<>>
    /\ errCause' = ""
    /\ postCalls' = 0
    /\ postOk' = FALSE
    /\ saveCalls' = 0
    /\ saveOk' = FALSE
    /\ loadCalls' = 1
    /\ pc' = "selecting"
    /\ UNCHANGED <<file, published, republished, saveFailed, call,
                   captionVars, imageVars>>

\* One turn of the loop of lines 635-647: call the next picker.
TryPicker ==
    /\ pc = "selecting"
    /\ idx <= Len(pickers)
    /\ \E r \in CallPicker(pickers[idx], seen, env) :
          /\ result' = r
          /\ tried' = Append(tried, pickers[idx])
          /\ CASE r.kind = "cand"  ->
                    /\ pc' = AfterCandidate
                    /\ UNCHANGED <<idx, errCause>>
               [] r.kind = "none"  ->
                    /\ pc' = AfterAbsent(idx)
                    /\ idx' = idx + 1
                    /\ UNCHANGED errCause
               [] r.kind = "raise" ->
                    /\ pc' = "error"
                    /\ errCause' = r.why
                    /\ UNCHANGED idx
    /\ UNCHANGED <<env, file, seen, fileAtStart, seenAtLoad, postCalls,
                   postOk, saveCalls, published, republished, saveFailed,
                   loadFailed, saveOk, loadCalls, call, captionVars,
                   imageVars>>

\* line 641: post_to_bluesky(caption, image_url)
Post ==
    /\ pc = "publishing"
    /\ \E outcome \in post_to_bluesky(result.image_url, env.BSKY) :
          /\ pc' = AfterPost(outcome)
          /\ postOk' = (outcome = "ok")
          /\ errCause' = IF AfterPost(outcome) = "error" THEN "publish"
                         ELSE errCause
          /\ published' = IF outcome = "ok" THEN published \cup {result.key}
                          ELSE published
          /\ republished' = (republished
                             \/ (outcome = "ok" /\ result.key \in published))
    /\ postCalls' = postCalls + 1
    /\ UNCHANGED <<env, file, seen, idx, result, tried, fileAtStart,
                   seenAtLoad, saveCalls, saveFailed, loadFailed, saveOk,
                   loadCalls, call, captionVars, imageVars>>

\* line 642: seen.add(key)
AddSeen ==
    /\ pc = "posted"
    /\ seen' = AddKey(seen, result.key)
    /\ pc' = "saving"
    /\ UNCHANGED <<env, file, idx, result, tried, fileAtStart, seenAtLoad,
                   errCause, postCalls, postOk, saveCalls, published,
                   republished, saveFailed, loadFailed, saveOk, loadCalls,
                   call, captionVars, imageVars>>

\* lines 643-645: save_seen_ids(seen); its failure is only printed
Save ==
    /\ pc = "saving"
    /\ \E o \in save_seen_ids(file, seen) :
          /\ file' = o.file
          /\ saveFailed' = (saveFailed \/ ~o.ok)
          /\ saveOk' = o.ok
          /\ pc' = AfterSave(o.ok)
    /\ saveCalls' = saveCalls + 1
    /\ UNCHANGED <<env, seen, idx, result, tried, fileAtStart, seenAtLoad,
                   errCause, postCalls, postOk, published, republished,
                   loadFailed, loadCalls, call, captionVars, imageVars>>

Next == StartRun \/ TryPicker \/ Post \/ AddSeen \/ Save

Spec == Init /\ [][Next]_vars

\* every process runs to its end and the scheduler starts the next one
FairSpec == Spec /\ WF_vars(Next)

(***************************************************************************)
(* ProgressSpec: the runs of main in which every search and detail         *)
(* request, every post and every save succeeds.  The load of the ledger    *)
(* and the access key of Cooper Hewitt are left as they come.              *)
(***************************************************************************)

\* the calls of the set calls in which the search and every detail request
\* answer
Answered(calls) ==
    {ch \in calls : /\ ch.search_ok
                    /\ \A i \in DOMAIN ch.fetch : ch.fetch[i] = "ok"}

\* line 637: picker(seen) when every request of the call answers
CallPickerAnswered(label, seenIds, cfg) ==
    CASE label = "Library of Congress"     ->
             {loc_call(seenIds, ch) : ch \in Answered(LocCalls)}
      [] label = "Cooper Hewitt"           ->
             {ch_call(seenIds, cfg.COOPER_API_KEY, ch) :
                 ch \in Answered(ChCalls)}
      [] label = "Cleveland Museum of Art" ->
             {cma_call(seenIds, ch) : ch \in Answered(CmaCalls)}
      [] label = "The Met"                 ->
             {met_call(seenIds, ch) : ch \in Answered(MetCalls)}

\* a process starts with the Bluesky credentials set
StartRunWithCredentials == StartRun /\ env'.BSKY

\* a picker call all of whose requests answer
TryPickerAnswered ==
    TryPicker /\ result' \in CallPickerAnswered(pickers[idx], seen, env)

\* post_to_bluesky returns normally
PostSucceeds == Post /\ postOk'

\* save_seen_ids writes the whole file
SaveSucceeds == Save /\ saveOk'

ProgressNext ==
    \/ StartRunWithCredentials
    \/ TryPickerAnswered
    \/ PostSucceeds
    \/ AddSeen
    \/ SaveSucceeds

\* every process runs to its end and the scheduler starts the next one
ProgressSpec == Init /\ [][ProgressNext]_vars /\ WF_vars(ProgressNext)

(***************************************************************************)
(* PickSpec: each picker of the module called once on a seen set.          *)
(***************************************************************************)

\* every picker the module defines: main's four and the two it leaves out
AllPickers == pickers \o <<"Art Institute of Chicago", "Rijksmuseum">>

\* the source tag a picker puts in its keys
TagOf(label) ==
    CASE label = "Library of Congress"      -> "loc"
      [] label = "Cooper Hewitt"            -> "cooper"
      [] label = "Cleveland Museum of Art"  -> "cma"
      [] label = "The Met"                  -> "met"
      [] label = "Art Institute of Chicago" -> "artic"
      [] label = "Rijksmuseum"              -> "rijks"

\* the keys of the items a picker's search returns (items of which line 556
\* finds no id have none)
KeysOffered(label) ==
    CASE label = "Library of Congress"      ->
             {Key("loc", LocItemId(LOC_RESULTS[i])) :
                 i \in {j \in 1..Len(LOC_RESULTS) :
                           LocItemId(LOC_RESULTS[j]) # 0}}
      [] label = "Cooper Hewitt"            ->
             {Key("cooper", CH_OBJECTS[i].id) : i \in 1..Len(CH_OBJECTS)}
      [] label = "Cleveland Museum of Art"  ->
             {Key("cma", CMA_DATA[i].id) : i \in 1..Len(CMA_DATA)}
      [] label = "The Met"                  ->
             {Key("met", oid) : oid \in MetObjectIds}
      [] label = "Art Institute of Chicago" ->
             {Key("artic", oid) : oid \in ArticObjectIds}
      [] label = "Rijksmuseum"              ->
             {Key("rijks", RIJKS_ARTOBJECTS[i].objectNumber) :
                 i \in 1..Len(RIJKS_ARTOBJECTS)}

\* the seen sets the pickers are called on: for each picker every set of
\* its own search results' keys, alone or next to a key of another picker
SeenSets ==
    UNION {{own \cup other :
              own \in SUBSET KeysOffered(AllPickers[i]),
              other \in {{}, {Key(TagOf(AllPickers[(i % Len(AllPickers)) + 1]),
                                  1)}}} :
           i \in 1..Len(AllPickers)}

PickInit ==
    /\ pc = "pick"
    /\ env \in {e \in Environments : e.BSKY}
    /\ seen \in SeenSets
    /\ file = NoFile
    /\ idx = 1
    /\ result = None
    /\ tried = <<>>
    /\ fileAtStart = NoFile
    /\ seenAtLoad = seen
    /\ errCause = ""
    /\ postCalls = 0
    /\ postOk = FALSE
    /\ saveCalls = 0
    /\ published = {}
    /\ republished = FALSE
    /\ saveFailed = FALSE
    /\ loadFailed = FALSE
    /\ saveOk = FALSE
    /\ loadCalls = 0
    /\ call = NoCall
    /\ base_text = <<>>
    /\ final_text = <<>>
    /\ cpc = "off"
    /\ ImageOff

\* the call returns r from the picker called label, after the network and
\* the shuffle did ch
Picked(label, r, ch) ==
    /\ pc = "pick"
    /\ result' = r
    /\ call' = IF r.net = 0 THEN NoCall ELSE ch
    /\ tried' = <<label>>
    /\ pc' = "picked"
    /\ UNCHANGED <<env, file, seen, idx, fileAtStart, seenAtLoad, errCause,
                   postCalls, postOk, saveCalls, published, republished,
                   saveFailed, loadFailed, saveOk, loadCalls, captionVars,
                   imageVars>>

PickLoc ==
    \E ch \in LocCalls :
        Picked("Library of Congress", loc_call(seen, ch), ch)

PickCooper ==
    \E ch \in ChCalls :
        Picked("Cooper Hewitt", ch_call(seen, env.COOPER_API_KEY, ch), ch)

PickCma ==
    \E ch \in CmaCalls :
        Picked("Cleveland Museum of Art", cma_call(seen, ch), ch)

PickMet ==
    \E ch \in MetCalls : Picked("The Met", met_call(seen, ch), ch)

PickArtic ==
    \E ch \in ArticCalls :
        Picked("Art Institute of Chicago", artic_call(seen, ch), ch)

PickRijks ==
    \E ch \in RijksCalls :
        Picked("Rijksmuseum", rijks_call(seen, env.RIJKS_API_KEY, ch), ch)

PickNext ==
    PickLoc \/ PickCooper \/ PickCma \/ PickMet \/ PickArtic \/ PickRijks

PickSpec == PickInit /\ [][PickNext]_vars

(***************************************************************************)
(* RunOrPickSpec: the runs of main and the single picker calls together,   *)
(* for what is said of a picker both alone and inside main.                *)
(***************************************************************************)

RunOrPickInit == Init \/ PickInit

RunOrPickNext == Next \/ PickNext

RunOrPickSpec == RunOrPickInit /\ [][RunOrPickNext]_vars

(***************************************************************************)
(* CaptionSpec: add_hashtags on a bounded family of texts.                 *)
(***************************************************************************)

\* longest run of leading, inner or trailing whitespace in an input
MaxPad == 2

\* longest second word of an input
MaxTail == 2

\* how far around MAX_TEXT_LEN - len(suffix) the first word's length varies
Window == 3

\* n copies of the character c
Rep(c, n) == [i \in 1..n |-> c]

\* the lengths of the first word: empty, short, around the budget, far over
BodyLens ==
    {0, 1, MAX_TEXT_LEN + 50}
    \cup {n \in (MAX_TEXT_LEN - Len(HASHTAGS_SUFFIX) - Window)
                ..(MAX_TEXT_LEN - Len(HASHTAGS_SUFFIX) + Window) : n >= 0}

CaptionInputs ==
    {Rep(" ", lead) \o Rep("x", n) \o Rep(" ", gap) \o Rep("y", m)
        \o Rep("\n", trail) :
        lead \in 0..MaxPad, n \in BodyLens, gap \in 0..MaxPad,
        m \in 0..MaxTail, trail \in 0..MaxPad}

CaptionInit ==
    /\ cpc = "in"
    /\ base_text \in CaptionInputs
    /\ final_text = <<>>
    /\ pc = "init"
    /\ env = [BSKY |-> TRUE, COOPER_API_KEY |-> TRUE, RIJKS_API_KEY |-> TRUE]
    /\ file = NoFile
    /\ seen = {}
    /\ idx = 1
    /\ result = None
    /\ tried = <<>>
    /\ fileAtStart = NoFile
    /\ seenAtLoad = {}
    /\ errCause = ""
    /\ postCalls = 0
    /\ postOk = FALSE
    /\ saveCalls = 0
    /\ published = {}
    /\ republished = FALSE
    /\ saveFailed = FALSE
    /\ loadFailed = FALSE
    /\ saveOk = FALSE
    /\ loadCalls = 0
    /\ call = NoCall
    /\ ImageOff

\* line 71: final_text = add_hashtags(text)
AddHashtags ==
    /\ cpc = "in"
    /\ final_text' = add_hashtags(base_text)
    /\ cpc' = "out"
    /\ UNCHANGED <<base_text, mainVars, imageVars>>

CaptionNext == AddHashtags

CaptionSpec == CaptionInit /\ [][CaptionNext]_vars

(***************************************************************************)
(* ImageSpec: lines 80-98 of post_to_bluesky on a bounded family of        *)
(* downloaded images.                                                      *)
(***************************************************************************)

\* the pictures downloaded at lines 78-80
DownloadedImages ==
    {Image(w, h, n) : w \in {800, 3000, 6000}, h \in {600, 4000},
                      n \in ImageLens}

ImageInit ==
    /\ ipc = "downloaded"
    /\ image_data \in DownloadedImages
    /\ blob = NoImage
    /\ cpc = "off"
    /\ base_text = <<>>
    /\ final_text = <<>>
    /\ pc = "init"
    /\ env = [BSKY |-> TRUE, COOPER_API_KEY |-> TRUE, RIJKS_API_KEY |-> TRUE]
    /\ file = NoFile
    /\ seen = {}
    /\ idx = 1
    /\ result = None
    /\ tried = <<>>
    /\ fileAtStart = NoFile
    /\ seenAtLoad = {}
    /\ errCause = ""
    /\ postCalls = 0
    /\ postOk = FALSE
    /\ saveCalls = 0
    /\ published = {}
    /\ republished = FALSE
    /\ saveFailed = FALSE
    /\ loadFailed = FALSE
    /\ saveOk = FALSE
    /\ loadCalls = 0
    /\ call = NoCall

\* lines 83-96
ResizeIfNeeded ==
    /\ ipc = "downloaded"
    /\ image_data' \in resize_if_needed(image_data)
    /\ ipc' = "prepared"
    /\ UNCHANGED <<blob, mainVars, captionVars>>

\* line 98: blob = client.upload_blob(image_data)
UploadBlob ==
    /\ ipc = "prepared"
    /\ blob' = image_data
    /\ ipc' = "uploaded"
    /\ UNCHANGED <<image_data, mainVars, captionVars>>

ImageNext == ResizeIfNeeded \/ UploadBlob

ImageSpec == ImageInit /\ [][ImageNext]_vars

(***************************************************************************)
(* Properties                                                              *)
(***************************************************************************)

\* C1: in every run the ledger is changed, in memory and on disk, only
\* after post_to_bluesky has returned normally: as long as the run's post
\* has not succeeded, `seen` is what load_seen_ids returned, the file is
\* what it was at the start of the run, and the key of the candidate in
\* hand is not in `seen`, nor in the file when the load read the file.
LedgerOnlyAfterPublish ==
    ~postOk =>
        /\ seen = seenAtLoad
        /\ file = fileAtStart
        /\ result.kind = "cand" =>
              /\ result.key \notin seen
              /\ seenAtLoad = load_seen_ids(fileAtStart) =>
                    result.key \notin load_seen_ids(file)

\* C1 witness: a run whose post succeeded has put the key in both
LedgerUpdatedAfterPublish ==
    /\ pc = "done"
    /\ postOk
    /\ result.key \in seen \ seenAtLoad
    /\ result.key \in load_seen_ids(file) \ load_seen_ids(fileAtStart)

\* C2: once post_to_bluesky has failed, the run is in error because of it,
\* no picker after the candidate's was called, save_seen_ids was not
\* called, the ledger in memory and on disk is what it was at the start of
\* the run, and the candidate's key, unseen by a run that read its ledger,
\* is not in the ledger the next run loads.
PublishFailureLeavesLedger ==
    (postCalls > 0 /\ ~postOk) =>
        /\ pc = "error"
        /\ errCause = "publish"
        /\ tried = SubSeq(pickers, 1, idx)
        /\ TagOf(Last(tried)) = result.key[1]
        /\ saveCalls = 0
        /\ seen = seenAtLoad
        /\ file = fileAtStart
        /\ result.key \notin seen
        /\ seenAtLoad = load_seen_ids(fileAtStart) =>
              result.key \notin load_seen_ids(file)

\* C2 witness: a failed post in a run that started with a non-empty ledger
\* and had already gone past an empty picker
PublishFailed ==
    /\ pc = "error"
    /\ errCause = "publish"
    /\ postCalls = 1
    /\ Len(tried) >= 2
    /\ load_seen_ids(file) # {}

\* C3 as stated: no key is ever published twice.
NeverRepublished == ~republished

\* C3 amended: as long as every save_seen_ids call has written the file
\* and every load_seen_ids call has read it back no key is published
\* twice, and no run publishes a key of the ledger it loaded.
NoRepublishWhileSavesSucceed ==
    /\ (~saveFailed /\ ~loadFailed) => ~republished
    /\ postOk => result.key \notin seenAtLoad

\* C3 witness: several runs have published, every save and load
\* succeeded, and the last run passed over keys already in its ledger
PublishedSeveralDistinct ==
    /\ pc = "done"
    /\ ~saveFailed
    /\ ~loadFailed
    /\ Cardinality(published) >= 3
    /\ seenAtLoad \cap KeysOffered(Last(tried)) # {}

\* C4: the text add_hashtags returns is at most MAX_TEXT_LEN long.
CaptionWithinBudget == cpc = "out" => Len(final_text) <= MAX_TEXT_LEN

\* C5: a failure of a picker's search or detail request never ends the
\* run: a run ends in error only because the publisher failed.
PickerFailureNeverAborts == pc = "error" => errCause = "publish"

\* C6: the pickers are tried in a randomized order: for any two pickers A
\* and B, sooner or later a run calls B without having called A.
PickersTriedInEveryOrder ==
    \A a \in 1..Len(pickers) : \A b \in 1..Len(pickers) :
        a # b =>
            <>(\E i \in 1..Len(tried) :
                  /\ tried[i] = pickers[b]
                  /\ \A j \in 1..i : tried[j] # pickers[a])

\* C7: when the pickers before B returned None and B returned a candidate,
\* main posts B's candidate (the one in `result`), calls no picker after B,
\* and an empty picker never puts the run in error.
FallbackPublishesFirstCandidate ==
    /\ result.kind = "none" => pc # "error"
    /\ result.kind = "cand" =>
          /\ pc \in {"publishing", "posted", "saving", "done", "error"}
          /\ pc = "error" => errCause = "publish"
          /\ tried = SubSeq(pickers, 1, idx)
          /\ TagOf(Last(tried)) = result.key[1]
          /\ postCalls <= 1
          /\ postOk => result.key \in published

\* C7 witness: the first two pickers were empty and the third one's
\* candidate was posted
ThirdPickerPublished ==
    /\ pc = "done"
    /\ Len(tried) = 3
    /\ result.key[1] = "cma"
    /\ postOk

\* C8: when every picker has returned None the run ends in "exhausted", not
\* in error, without a post_to_bluesky or save_seen_ids call and with the
\* ledger unchanged in memory and on disk; and "exhausted" is reached in no
\* other way.
ExhaustedLeavesLedger ==
    /\ (Len(tried) = Len(pickers) /\ result.kind = "none") =>
          pc = "exhausted"
    /\ pc = "exhausted" =>
          /\ tried = pickers
          /\ result.kind = "none"
          /\ errCause = ""
          /\ postCalls = 0
          /\ saveCalls = 0
          /\ seen = seenAtLoad
          /\ file = fileAtStart

\* C8 witness: an exhausted run over a ledger that holds keys
ExhaustedWithLedger ==
    /\ pc = "exhausted"
    /\ Cardinality(load_seen_ids(file)) >= 2

\* C9: a picker never returns a candidate whose key is in the seen set it
\* was given, the key it returns is one of its own search results, and when
\* every search result's key is in seen it returns None (or, for the CMA,
\* fails in the search itself).
PickerSkipsSeen ==
    pc = "picked" =>
        /\ result.kind = "cand" =>
              /\ result.key \notin seen
              /\ result.key \in KeysOffered(Last(tried))
        /\ KeysOffered(Last(tried)) \subseteq seen =>
              (result.kind = "none" \/ result = CmaSearchFailure)

\* C9 witness: the Met picker, all of whose results are seen, returned None
MetAllSeenReturnsNone ==
    /\ pc = "picked"
    /\ Last(tried) = "The Met"
    /\ KeysOffered("The Met") \subseteq seen
    /\ result.kind = "none"

\* C10: after a save_seen_ids call, whatever its outcome, the key set the
\* next load reads is the complete previous one or the complete new one.
SaveAllOrNothing ==
    saveCalls > 0 =>
        load_seen_ids(file) \in {load_seen_ids(fileAtStart), seen}

\* C11: the image handed to client.upload_blob is never longer than
\* MAX_SIZE (950 KB).
UploadWithinLimit == ipc = "uploaded" => blob.len <= MAX_SIZE

\* the part of s from its first to its last non-whitespace character
Trimmed(s) ==
    LET ink == {i \in 1..Len(s) : ~IsSpace(s[i])}
    IN  IF ink = {} THEN <<>>
        ELSE SubSeq(s, CHOOSE i \in ink : \A j \in ink : i <= j,
                       CHOOSE i \in ink : \A j \in ink : j <= i)

\* s ends with t
EndsWith(s, t) ==
    /\ Len(s) >= Len(t)
    /\ SubSeq(s, Len(s) - Len(t) + 1, Len(s)) = t

\* C12 as stated: a text that fits with the suffix is returned with the
\* suffix appended and nothing else changed, leading and trailing
\* whitespace included.
FittingTextKeptVerbatim ==
    (cpc = "out" /\ Len(base_text \o HASHTAGS_SUFFIX) <= MAX_TEXT_LEN)
        => final_text = base_text \o HASHTAGS_SUFFIX

\* C12: when the text without its leading and trailing whitespace fits
\* with the suffix, add_hashtags returns exactly that trimmed text followed
\* by the suffix (interior whitespace kept), which is text + suffix when
\* the text neither begins nor ends with whitespace.
FittingTextKeptTrimmed ==
    (cpc = "out"
     /\ Len(Trimmed(base_text)) + Len(HASHTAGS_SUFFIX) <= MAX_TEXT_LEN)
        => /\ final_text = Trimmed(base_text) \o HASHTAGS_SUFFIX
           /\ (base_text = <<>>
               \/ (base_text # <<>> /\ ~IsSpace(base_text[1])
                   /\ ~IsSpace(base_text[Len(base_text)])))
                 => final_text = base_text \o HASHTAGS_SUFFIX

\* C12 witness: a padded text with interior whitespace whose trimmed form
\* fills the budget exactly has been returned.
PaddedTextFillsBudget ==
    /\ cpc = "out"
    /\ Len(Trimmed(base_text)) + Len(HASHTAGS_SUFFIX) = MAX_TEXT_LEN
    /\ Len(base_text) > Len(Trimmed(base_text))
    /\ \E i \in 1..Len(Trimmed(base_text)) : IsSpace(Trimmed(base_text)[i])
    /\ Len(final_text) = MAX_TEXT_LEN

\* C13: the text add_hashtags returns always ends with the suffix; when
\* the trimmed text does not fit it is a prefix of the trimmed text, then
\* one ellipsis marker, then the suffix.
SuffixAlwaysKept ==
    cpc = "out" =>
        /\ EndsWith(final_text, HASHTAGS_SUFFIX)
        /\ Len(Trimmed(base_text)) + Len(HASHTAGS_SUFFIX) > MAX_TEXT_LEN
             => /\ LET k == Len(final_text) - Len(HASHTAGS_SUFFIX) - 1
                   IN  /\ k >= 0
                       /\ final_text = Prefix(Trimmed(base_text), k)
                                       \o <<ELLIPSIS>> \o HASHTAGS_SUFFIX
                /\ Cardinality({i \in 1..Len(final_text) :
                                   final_text[i] = ELLIPSIS}) = 1

\* C13 witness: a text too long was cut inside its whitespace, so the
\* prefix kept is shorter than the room left for it.
CutInsideWhitespace ==
    /\ cpc = "out"
    /\ Len(Trimmed(base_text)) + Len(HASHTAGS_SUFFIX) > MAX_TEXT_LEN
    /\ Len(final_text) < MAX_TEXT_LEN + 1
    /\ EndsWith(final_text, <<ELLIPSIS>> \o HASHTAGS_SUFFIX)

\* C14: the Met picker returns no object for which is_tomato_related is
\* false.
MetReturnsOnlyTomato ==
    (pc = "picked" /\ Last(tried) = "The Met" /\ result.kind = "cand")
        => is_tomato_related(MET_OBJECTS[result.key[2]])

\* the attribution lines the pickers write
SourceLines ==
    {"Source: Library of Congress (Public Domain)",
     "Source: Cooper Hewitt Smithsonian Design Museum",
     "Source: The Cleveland Museum of Art (CC0)",
     "Source: <dept>, The Met Open Access",
     "Source: Art Institute of Chicago (CC0)",
     "Source: Rijksmuseum (CC0)"}

\* C15: the caption of every candidate a picker returns is made of
\* non-empty lines, begins with a title line and has a "Source: ..." line.
CaptionHasTitleAndSource ==
    (pc = "picked" /\ result.kind = "cand")
        => /\ result.caption # <<>>
           /\ \A i \in 1..Len(result.caption) : result.caption[i] # ""
           /\ result.caption[1] \notin SourceLines
           /\ \E i \in 1..Len(result.caption) :
                 result.caption[i] \in SourceLines

\* the pickers whose access key the environment e lacks
Keyless(e) ==
    {l \in {"Cooper Hewitt"} : ~e.COOPER_API_KEY}
    \cup {l \in {"Rijksmuseum"} : ~e.RIJKS_API_KEY}

\* C16: a picker called without its access key returns None without having
\* made a request and without raising, and main, when it made the call,
\* goes on to the next picker of its list.
KeylessPickerReturnsAbsent ==
    (tried # <<>> /\ Last(tried) \in Keyless(env)) =>
        /\ result.kind = "none"
        /\ result.net = 0
        /\ errCause = ""
        /\ pc # "picked" =>
              /\ pc = "selecting"
              /\ idx = Len(tried) + 1
              /\ idx <= Len(pickers)
              /\ postCalls = 0

\* C16 witness: main has called the Cooper Hewitt picker without a key and
\* stands before the Cleveland picker.
MainPastKeylessCooper ==
    /\ ~env.COOPER_API_KEY
    /\ pc = "selecting"
    /\ tried # <<>>
    /\ Last(tried) = "Cooper Hewitt"
    /\ idx <= Len(pickers)
    /\ pickers[idx] = "Cleveland Museum of Art"
    /\ result.net = 0

\* a ledger file that is missing, empty or cut short
Unreadable(f) ==
    \/ ~f.exists
    \/ f.data = <<>>
    \/ f.data[Len(f.data)] # RBRACKET

\* C17: a run whose load found no readable ledger goes on with the empty
\* set, and a run whose save failed after the post still ends in "done":
\* an error end never follows a save_seen_ids call.
LedgerFailureNotFatal ==
    /\ (loadCalls = 1 /\ Unreadable(fileAtStart)) => seenAtLoad = {}
    /\ (loadCalls = 1 /\ tried = <<>>) =>
          (pc = "selecting" /\ seen = seenAtLoad /\ errCause = "")
    /\ saveCalls > 0 => (pc = "done" /\ postOk /\ errCause = "")
    /\ pc = "error" => saveCalls = 0

\* C17 witness: a run that started on a ledger file cut short published,
\* failed to save and ended in "done".
DoneDespiteLedgerFailures ==
    /\ pc = "done"
    /\ fileAtStart.exists
    /\ Unreadable(fileAtStart)
    /\ postOk
    /\ saveCalls = 1
    /\ ~saveOk

\* C18: after a save_seen_ids(S \cup {k}) that completed, load_seen_ids
\* returns exactly S \cup {k}, and the file holds every key once.
LedgerRoundTrip ==
    saveOk =>
        /\ load_seen_ids(file) = seenAtLoad \cup {result.key}
        /\ result.key \in load_seen_ids(file)
        /\ Len(file.data) = Cardinality(seenAtLoad \cup {result.key}) + 2
        /\ \A i, j \in 1..Len(file.data) :
              file.data[i] = file.data[j] => i = j

\* C18 witness: a completed save of a key added to a set of several keys
SavedNextToSeveral ==
    /\ saveOk
    /\ Cardinality(seenAtLoad) >= 2
    /\ result.key \notin seenAtLoad

\* the loop of the picker called label, run on the list items
LoopOf(label, items, seenIds, fetch) ==
    CASE label = "Library of Congress"      -> loc_loop(items, seenIds)
      [] label = "Cooper Hewitt"            -> ch_loop(items, seenIds)
      [] label = "Cleveland Museum of Art"  -> cma_loop(items, seenIds)
      [] label = "The Met"                  -> met_loop(items, seenIds, fetch)
      [] label = "Art Institute of Chicago" ->
             artic_loop(items, seenIds, fetch)
      [] label = "Rijksmuseum"              -> rijks_loop(items, seenIds)

\* the candidate made of the first item of the list that the picker takes
\* when the item is all it is given; None when the list has no such item
RECURSIVE FirstUsable(_, _, _, _)
FirstUsable(label, items, seenIds, fetch) ==
    IF items = <<>> THEN None
    ELSE LET alone == LoopOf(label, <<Head(items)>>, seenIds, fetch)
         IN  IF alone.kind = "cand" THEN alone
             ELSE FirstUsable(label, Tail(items), seenIds, fetch)

\* C19: when its search succeeded a picker returns the first item, in the
\* shuffled order, that is unseen and passes its checks, and returns None
\* only when the list has no such item: no item before it, unusable or
\* failing, hides it.
FirstUsableItemReturned ==
    (pc = "picked" /\ call.search_ok) =>
        LET want == FirstUsable(Last(tried), call.order, seen, call.fetch)
        IN  /\ result.kind = want.kind
            /\ result.key = want.key
            /\ result.caption = want.caption
            /\ result.image_url = want.image_url

\* C20: a run loads the ledger once, before the first picker call, calls
\* post_to_bluesky at most once and save_seen_ids at most once, as its last
\* step; the only key it can add is the key of the candidate it published,
\* and the file changes only in that save.
OneLoadOnePostOneSave ==
    pc # "init" =>
        /\ loadCalls = 1
        /\ postCalls <= 1
        /\ saveCalls <= 1
        /\ saveCalls = 1 => (pc = "done" /\ postCalls = 1)
        /\ seenAtLoad \subseteq seen
        /\ seen \ seenAtLoad \subseteq {result.key}
        /\ seen # seenAtLoad =>
              (postOk /\ result.kind = "cand" /\ result.key \in published)
        /\ file # fileAtStart => saveCalls = 1

\* C20 witness: a finished run that loaded, posted and saved once each and
\* added its one key to a ledger that already held keys
RunAddedOneKey ==
    /\ pc = "done"
    /\ loadCalls = 1 /\ postCalls = 1 /\ saveCalls = 1
    /\ seenAtLoad # {}
    /\ seen = seenAtLoad \cup {result.key}
    /\ seen # seenAtLoad

\* C21: the key set the ledger file holds only grows in a run: what a load
\* reads from the file is a superset of what it read from the file the run
\* started on.
LedgerOnlyGrows ==
    loadCalls = 1 => load_seen_ids(fileAtStart) \subseteq load_seen_ids(file)

\* the keys of the items main's pickers can return: what they return from
\* an empty seen set, every key set and every request answering
EligibleKeys ==
    {r.key : r \in {x \in UNION {CallPickerAnswered(
                                     pickers[i], {},
                                     [BSKY |-> TRUE, COOPER_API_KEY |-> TRUE,
                                      RIJKS_API_KEY |-> TRUE]) :
                                 i \in 1..Len(pickers)} :
                       x.kind = "cand"}}

\* the run's load_seen_ids call read the file
LoadedThisRun == seenAtLoad = load_seen_ids(fileAtStart)

\* the file holds one key more than at the start of the run
GrownByOneKey ==
    \E k \in load_seen_ids(file) \ load_seen_ids(fileAtStart) :
        load_seen_ids(file) = load_seen_ids(fileAtStart) \cup {k}

\* every eligible item is published and no run publishes any more
AllPublishedForGood ==
    /\ published = EligibleKeys
    /\ pc \in {"selecting", "exhausted"}

\* C22 as stated: with every search, post and save succeeding, a run that
\* starts while an eligible item is not in the ledger ends in "done" with
\* one more key in the ledger, no key is published twice, and in the end
\* every eligible item is published and every run ends in "exhausted".
ProgressToExhaustion ==
    /\ [](pc = "exhausted" => EligibleKeys \subseteq load_seen_ids(fileAtStart))
    /\ [](pc = "done" => GrownByOneKey)
    /\ []~republished
    /\ <>[]AllPublishedForGood

\* C22: the same for the runs whose load_seen_ids call read the ledger and
\* in which the Cooper Hewitt key is set: such a run, started while an
\* eligible item is not in the ledger, ends in "done" with one more key in
\* the ledger; while no load has failed no key is published twice; and when
\* no load ever fails and the key is always set, in the end every eligible
\* item is published and every run ends in "exhausted".
ProgressWhenLoadedAndKeyed ==
    /\ []((pc = "exhausted" /\ LoadedThisRun /\ env.COOPER_API_KEY)
            => EligibleKeys \subseteq load_seen_ids(fileAtStart))
    /\ []((pc = "done" /\ LoadedThisRun) => GrownByOneKey)
    /\ [](~loadFailed => ~republished)
    /\ ([](~loadFailed /\ (pc # "init" => env.COOPER_API_KEY)))
          => <>[]AllPublishedForGood

\* C22 witness: every load having read the ledger, every eligible item has
\* been published once and a run has ended in "exhausted" over the full
\* ledger.
ExhaustedAfterPublishingAll ==
    /\ pc = "exhausted"
    /\ ~loadFailed
    /\ ~republished
    /\ published = EligibleKeys
    /\ load_seen_ids(file) = EligibleKeys
    /\ Cardinality(EligibleKeys) >= Len(pickers)

====
